---- MODULE Spec2Model ----
(***************************************************************************)
(* Model of the gridscale server resource of terraform-provider-gridscale: *)
(* resourceGridscaleServerUpdate, resourceGridscaleServerCreate,           *)
(* resourceGridscaleServerDelete and resourceGridscaleServerRead, and the  *)
(* remote calls they issue.                                                *)
(*                                                                         *)
(* The ResourceData `d` is modelled by its prior state (d.old) and its     *)
(* planned values (d.new); `state` holds the attribute values as last      *)
(* written with d.Set, `id` the resource id.  Every call on the gsclient   *)
(* is one step; each call either succeeds or returns an error, and every   *)
(* call issued is appended to `calls` together with its outcome.           *)
(***************************************************************************)
EXTENDS Naturals, Integers, Sequences, FiniteSets, TLC

VARIABLES d, pc, calls, todo, id, err, state

vars == <<d, pc, calls, todo, id, err, state>>

(***************************************************************************)
(* Bounds of the model.                                                    *)
(***************************************************************************)
MaxCores    == 2
MaxMemory   == 2
MaxNetworks == 2
MaxStorages == 2

(***************************************************************************)
(* Values the attributes range over.  "" is the zero value of a string     *)
(* attribute (attribute not set).                                          *)
(***************************************************************************)
ServerUUID   == "server"
PublicNetworkUUID == "public"
Names1       == "web"
Names        == {Names1, "db"}
IPv4Name     == <<"ip4a", "ip4b">>
IPv6Name     == <<"ip6a", "ip6b">>
IsoName      == <<"iso1", "iso2">>
NetworkName  == <<"net1", "net2", "net3">>
StorageName  == <<"sto1", "sto2", "sto3">>
IPv4UUIDs    == {IPv4Name[i] : i \in 1..Len(IPv4Name)}
IPv6UUIDs    == {IPv6Name[i] : i \in 1..Len(IPv6Name)}
IsoUUIDs     == {IsoName[i] : i \in 1..Len(IsoName)}
NetworkUUIDs == {NetworkName[i] : i \in 1..MaxNetworks}
StorageUUIDs == {StorageName[i] : i \in 1..MaxStorages}

RECURSIVE SeqToSet(_)
SeqToSet(s) == IF s = <<>> THEN {} ELSE {Head(s)} \cup SeqToSet(Tail(s))

\* all orders in which the elements of a finite set can be listed
ListOrders(S) ==
    {s \in [1..Cardinality(S) -> S] : \A i, j \in 1..Cardinality(S) : s[i] = s[j] => i = j}

\* elements of the "network" set and of the "storage" list of the schema
NetworkElems == [object_uuid : NetworkUUIDs, bootdevice : BOOLEAN]
StorageElems == [object_uuid : StorageUUIDs, bootdevice : BOOLEAN]

UniqueUUIDs(S) == \A x, y \in S : x.object_uuid = y.object_uuid => x = y

NetworkSets ==
    {S \in SUBSET NetworkElems : Cardinality(S) <= MaxNetworks /\ UniqueUUIDs(S)}

StorageLists ==
    UNION {ListOrders(S) : S \in {T \in SUBSET StorageElems :
                                     Cardinality(T) <= MaxStorages /\ UniqueUUIDs(T)}}

(***************************************************************************)
(* The schema declares "storage" as a list and "network" as a set.  For a  *)
(* TypeList attribute d.Get/d.GetChange/d.GetOk hand out a []interface{},  *)
(* for a TypeSet attribute a *schema.Set.                                  *)
(***************************************************************************)
storageSchemaType == "TypeList"
networkSchemaType == "TypeSet"

\* value.(*schema.Set): the unchecked type assertion panics on any other type
AssertSchemaSetPanics(schemaType) == schemaType # "TypeSet"

(***************************************************************************)
(* schema.ResourceData                                                     *)
(***************************************************************************)
Get(k)       == d.new[k]
HasChange(k) == d.old[k] # d.new[k]
GetChange(k) == <<d.old[k], d.new[k]>>

(***************************************************************************)
(* resourceGridscaleServerUpdate: the power-cycle decision.                *)
(***************************************************************************)
\* the cores block without the legacy clause
shutdownRequiredCoresIgnoresLegacy ==
    HasChange("cores") /\ GetChange("cores")[2] < GetChange("cores")[1]

shutdownRequiredCores ==
    HasChange("cores")
    /\ (GetChange("cores")[2] < GetChange("cores")[1] \/ Get("legacy"))

\* the memory block requiring a shutdown on any change of memory
shutdownRequiredMemoryOnAnyChange ==
    HasChange("memory")

\* the memory block without its legacy clause
shutdownRequiredMemoryIgnoresLegacy ==
    HasChange("memory") /\ GetChange("memory")[2] < GetChange("memory")[1]

shutdownRequiredMemory ==
    HasChange("memory")
    /\ (GetChange("memory")[2] < GetChange("memory")[1] \/ Get("legacy"))

shutdownRequiredRelations ==
    HasChange("ipv4") \/ HasChange("ipv6") \/ HasChange("storage") \/ HasChange("network")

shutdownRequired ==
    shutdownRequiredCores \/ shutdownRequiredMemory \/ shutdownRequiredRelations

\* the body of the UpdateServer request
requestBody ==
    [Name |-> Get("name"), Cores |-> Get("cores"), Memory |-> Get("memory")]

(***************************************************************************)
(* Link/unlink of the ISO image and of the IP addresses: the call issued   *)
(* for a changed attribute.                                                *)
(***************************************************************************)
IsoCall(oldIso, newIso) ==
    IF newIso = "" THEN [op |-> "UnlinkIsoImage", arg |-> oldIso]
                   ELSE [op |-> "UnlinkIsoImage", arg |-> newIso]

IPCall(oldIp, newIp) ==
    IF newIp = "" THEN [op |-> "UnlinkIP", arg |-> oldIp]
                  ELSE [op |-> "LinkIP", arg |-> newIp]

\* needsPublicNetwork that no IP block ever clears
needsPublicNetworkNeverCleared ==
    TRUE

\* needsPublicNetwork after both IP blocks ran without error
needsPublicNetwork ==
    /\ ~(HasChange("ipv4") /\ GetChange("ipv4")[1] # "")
    /\ ~(HasChange("ipv6") /\ GetChange("ipv6")[1] # "")

\* the disconnect condition without its HasChange guard
unlinkPublicNetworkWithoutChange ==
    Get("ipv6") = "" /\ Get("ipv4") = ""

\* the disconnect condition satisfied as soon as one family is empty
unlinkPublicNetworkEitherFamilyEmpty ==
    (HasChange("ipv6") \/ HasChange("ipv4")) /\ (Get("ipv6") = "" \/ Get("ipv4") = "")

unlinkPublicNetwork ==
    (HasChange("ipv6") \/ HasChange("ipv4")) /\ Get("ipv6") = "" /\ Get("ipv4") = ""

\* the connect condition without the needsPublicNetwork flag
linkPublicNetworkOnAnyChange ==
    HasChange("ipv6") \/ HasChange("ipv4")

linkPublicNetwork ==
    (HasChange("ipv6") \/ HasChange("ipv4")) /\ needsPublicNetwork

\* an unlink loop that skips the networks kept in the new collection
NetworksToUnlinkRemovedOnly(oldNetworks, newNetworks) ==
    {n \in oldNetworks :
        n.object_uuid # "" /\ \A m \in newNetworks : m.object_uuid # n.object_uuid}

\* the networks the two loops over oldNetworks / newNetworks issue a call for
NetworksToUnlink(oldNetworks, newNetworks) ==
    {n \in oldNetworks : n.object_uuid # ""}

NetworksToLink(oldNetworks, newNetworks) ==
    {n \in newNetworks : n.object_uuid # ""}

(***************************************************************************)
(* The call sites of resourceGridscaleServerUpdate in program order, and   *)
(* the condition under which control reaches each of them.                 *)
(***************************************************************************)
Sites == << "shutdown", "update", "iso", "ipv4", "ipv6",
            "getPublicUnlink", "unlinkPublic", "getPublicLink", "linkPublic",
            "unlinkNetwork", "linkNetwork", "storage", "power", "read" >>

SiteNo(s) == CHOOSE i \in 1..Len(Sites) : Sites[i] = s

SiteGuard(s) ==
    CASE s = "shutdown"        -> shutdownRequired
      [] s = "update"          -> TRUE
      [] s = "iso"             -> HasChange("isoimage")
      [] s = "ipv4"            -> HasChange("ipv4")
      [] s = "ipv6"            -> HasChange("ipv6")
      [] s = "getPublicUnlink" -> unlinkPublicNetwork
      [] s = "unlinkPublic"    -> unlinkPublicNetwork
      [] s = "getPublicLink"   -> linkPublicNetwork
      [] s = "linkPublic"      -> linkPublicNetwork
      [] s = "unlinkNetwork"   -> HasChange("network")
                                  /\ NetworksToUnlink(d.old.network, d.new.network) # {}
      [] s = "linkNetwork"     -> HasChange("network")
                                  /\ NetworksToLink(d.old.network, d.new.network) # {}
      [] s = "storage"         -> HasChange("storage")
      [] s = "power"           -> TRUE
      [] s = "read"            -> TRUE

\* the first call site at or after position i that control reaches
NextSite(i) ==
    CHOOSE j \in i..Len(Sites) :
        SiteGuard(Sites[j]) /\ \A k \in i..(j-1) : ~SiteGuard(Sites[k])

\* (*schema.Set).List() of the collection a loop at site s ranges over
TodoFor(s) ==
    CASE s = "unlinkNetwork" -> ListOrders(NetworksToUnlink(d.old.network, d.new.network))
      [] s = "linkNetwork"   -> ListOrders(NetworksToLink(d.old.network, d.new.network))
      [] OTHER               -> {<<>>}

Call(op, arg, ok) == calls' = Append(calls, [op |-> op, arg |-> arg, ok |-> ok])

Goto(i) ==
    /\ pc' = Sites[NextSite(i)]
    /\ todo' \in TodoFor(Sites[NextSite(i)])
    /\ err' = err

Return(e) ==
    /\ pc' = "done"
    /\ todo' = <<>>
    /\ err' = e

\* a call whose error is dropped
CallAtDroppingError(s, op, arg) ==
    /\ pc = s
    /\ \E ok \in BOOLEAN :
          /\ Call(op, arg, ok)
          /\ Goto(SiteNo(s) + 1)
    /\ UNCHANGED <<d, id, state>>

\* a call that is followed by `if err != nil { return err }`
CallAt(s, op, arg) ==
    /\ pc = s
    /\ \E ok \in BOOLEAN :
          /\ Call(op, arg, ok)
          /\ IF ok THEN Goto(SiteNo(s) + 1) ELSE Return("error")
    /\ UNCHANGED <<d, id, state>>

(***************************************************************************)
(* The steps of resourceGridscaleServerUpdate.                             *)
(***************************************************************************)
UpdShutdownServer == CallAt("shutdown", "ShutdownServer", id)

UpdUpdateServer == CallAt("update", "UpdateServer", id)

UpdIsoImage ==
    CallAt("iso", IsoCall(GetChange("isoimage")[1], GetChange("isoimage")[2]).op,
                  IsoCall(GetChange("isoimage")[1], GetChange("isoimage")[2]).arg)

UpdIPv4 ==
    CallAt("ipv4", IPCall(GetChange("ipv4")[1], GetChange("ipv4")[2]).op,
                   IPCall(GetChange("ipv4")[1], GetChange("ipv4")[2]).arg)

UpdIPv6 ==
    CallAt("ipv6", IPCall(GetChange("ipv6")[1], GetChange("ipv6")[2]).op,
                   IPCall(GetChange("ipv6")[1], GetChange("ipv6")[2]).arg)

UpdGetNetworkPublicForUnlink == CallAt("getPublicUnlink", "GetNetworkPublic", "")

UpdUnlinkPublicNetwork == CallAt("unlinkPublic", "UnlinkNetwork", PublicNetworkUUID)

UpdGetNetworkPublicForLink == CallAt("getPublicLink", "GetNetworkPublic", "")

UpdLinkPublicNetwork == CallAt("linkPublic", "LinkNetwork", PublicNetworkUUID)

\* one iteration of a loop over todo
LoopAt(s, op) ==
    /\ pc = s
    /\ todo # <<>>
    /\ \E ok \in BOOLEAN :
          /\ Call(op, Head(todo).object_uuid, ok)
          /\ IF ~ok THEN Return("error")
             ELSE IF Tail(todo) = <<>> THEN Goto(SiteNo(s) + 1)
             ELSE pc' = pc /\ todo' = Tail(todo) /\ err' = err
    /\ UNCHANGED <<d, id, state>>

UpdUnlinkNetwork == LoopAt("unlinkNetwork", "UnlinkNetwork")

UpdLinkNetwork == LoopAt("linkNetwork", "LinkNetwork")

\* oldStorages.(*schema.Set).List() on the value of a TypeList attribute
UpdStorage ==
    /\ pc = "storage"
    /\ IF AssertSchemaSetPanics(storageSchemaType)
       THEN Return("panic")
       ELSE Goto(SiteNo("storage") + 1)
    /\ UNCHANGED <<d, id, calls, state>>

PowerCall(power) == IF power THEN "StartServer" ELSE "ShutdownServer"

UpdPower == CallAt("power", PowerCall(Get("power")), id)

(***************************************************************************)
(* resourceGridscaleServerRead.  GetServer answers with a server, with a   *)
(* RequestError of status 404, or with another error.  The server answered *)
(* is the one of the prior state or of the planned values, running or not, *)
(* with the public network among its relations when it has an address.     *)
(***************************************************************************)
ServerOf(a, power, networks) ==
    [Name |-> a.name, Cores |-> a.cores, Memory |-> a.memory, Legacy |-> a.legacy,
     Power |-> power,
     Storages |-> [i \in 1..Len(a.storage) |->
                      [ObjectUUID |-> a.storage[i].object_uuid,
                       BootDevice |-> a.storage[i].bootdevice]],
     Networks |->
        (IF a.ipv4 # "" \/ a.ipv6 # ""
            THEN <<[ObjectUUID |-> PublicNetworkUUID, BootDevice |-> FALSE, PublicNet |-> TRUE]>>
            ELSE <<>>)
        \o [i \in 1..Len(networks) |->
               [ObjectUUID |-> networks[i].object_uuid,
                BootDevice |-> networks[i].bootdevice, PublicNet |-> FALSE]],
     PublicIPs |->
        (IF a.ipv4 # "" THEN <<[ObjectUUID |-> a.ipv4, Family |-> 4]>> ELSE <<>>)
        \o (IF a.ipv6 # "" THEN <<[ObjectUUID |-> a.ipv6, Family |-> 6]>> ELSE <<>>),
     IsoImages |->
        (IF a.isoimage # "" THEN <<[ObjectUUID |-> a.isoimage]>> ELSE <<>>)]

GetServerResponses ==
    UNION {{ServerOf(a, power, networks) :
                power \in BOOLEAN, networks \in ListOrders(a.network)} :
           a \in {x \in {d.old, d.new} : x.name # ""}}

\* the ObjectUUID a range loop over the list leaves behind: the last one, or
\* the value found before the loop when the list is empty
RECURSIVE LastUUID(_, _)
LastUUID(list, found) ==
    IF list = <<>> THEN found
    ELSE LastUUID(Tail(list), Head(list).ObjectUUID)

IsFamily4(ip) == ip.Family = 4
IsFamily6(ip) == ip.Family = 6
IsNotPublicNet(n) == ~n.PublicNet

\* the attribute values the d.Set calls of the read write for a server
ReadState(server) ==
    [name |-> server.Name, cores |-> server.Cores, memory |-> server.Memory,
     legacy |-> server.Legacy, power |-> server.Power,
     storage |-> [i \in 1..Len(server.Storages) |->
                     [object_uuid |-> server.Storages[i].ObjectUUID,
                      bootdevice |-> server.Storages[i].BootDevice]],
     network |-> {[object_uuid |-> n.ObjectUUID, bootdevice |-> n.BootDevice] :
                     n \in SeqToSet(SelectSeq(server.Networks, IsNotPublicNet))},
     ipv4 |-> LastUUID(SelectSeq(server.PublicIPs, IsFamily4), ""),
     ipv6 |-> LastUUID(SelectSeq(server.PublicIPs, IsFamily6), ""),
     isoimage |-> LastUUID(server.IsoImages, "")]

\* a GetServer that failed with a RequestError of the given StatusCode
CallFailedWith(op, arg, status) ==
    calls' = Append(calls, [op |-> op, arg |-> arg, ok |-> FALSE, status |-> status])

\* a read that returns every error of GetServer, a 404 included
ReadAtReturnsNotFound(s) ==
    /\ pc = s
    /\ \/ \E server \in GetServerResponses :
             /\ Call("GetServer", id, TRUE)
             /\ state' = ReadState(server)
             /\ id' = id
             /\ Return("none")
       \/ \E status \in {404, 500} :
             /\ CallFailedWith("GetServer", id, status)
             /\ id' = id /\ Return("error")
             /\ state' = state
    /\ UNCHANGED d

ReadAt(s) ==
    /\ pc = s
    /\ \/ \E server \in GetServerResponses :
             /\ Call("GetServer", id, TRUE)
             /\ state' = ReadState(server)
             /\ id' = id
             /\ Return("none")
       \/ \E status \in {404, 500} :
             /\ CallFailedWith("GetServer", id, status)
             /\ IF status = 404
                   THEN id' = "" /\ Return("none")
                   ELSE id' = id /\ Return("error")
             /\ state' = state
    /\ UNCHANGED d

\* return resourceGridscaleServerRead(d, meta)
UpdRead == ReadAt("read")

(***************************************************************************)
(* Initial states: an update of an existing server.  Each attribute is     *)
(* given as a pair <<prior state, planned value>>.  The prior values of    *)
(* "power" and "legacy" are never read by the update, so both are taken    *)
(* unchanged.  The initial states are the union of four families, each the *)
(* full product of the listed pairs: one that is exhaustive in the         *)
(* attributes of the power-cycle decision, one exhaustive in the IP        *)
(* addresses and the ISO image, one in the networks, one in the storages.  *)
(***************************************************************************)
Pairs(S) == S \X S
Same(S)  == {<<x, x>> : x \in S}

StateOf(i, name, cores, memory, legacy, power, ip4, ip6, iso, net, sto) ==
    [name |-> name[i], cores |-> cores[i], memory |-> memory[i], legacy |-> legacy[i],
     power |-> power[i], ipv4 |-> ip4[i], ipv6 |-> ip6[i], isoimage |-> iso[i],
     network |-> net[i], storage |-> sto[i]]

InitOver(names, cores, memories, legacys, powers, ip4s, ip6s, isos, nets, stos) ==
    /\ \E name \in names, co \in cores, me \in memories, le \in legacys, po \in powers,
          ip4 \in ip4s, ip6 \in ip6s, iso \in isos, net \in nets, sto \in stos :
          d = [old |-> StateOf(1, name, co, me, le, po, ip4, ip6, iso, net, sto),
               new |-> StateOf(2, name, co, me, le, po, ip4, ip6, iso, net, sto)]
    /\ state = d.new
    /\ id = ServerUUID
    /\ calls = <<>>
    /\ err = "none"
    /\ pc = Sites[NextSite(1)]
    /\ todo \in TodoFor(Sites[NextSite(1)])

NoBoot(uuid) == [object_uuid |-> uuid, bootdevice |-> FALSE]

InitPower ==
    InitOver(Pairs(Names), Pairs(1..MaxCores), Pairs(1..MaxMemory), Same(BOOLEAN), Same(BOOLEAN),
             Pairs({"", IPv4Name[1]}), Pairs({"", IPv6Name[1]}), Same({""}),
             Pairs({{}, {NoBoot(NetworkName[1])}}), Pairs({<<>>, <<NoBoot(StorageName[1])>>}))

InitIP ==
    InitOver(Same({Names1}), Same({1}), Same({1}), Same({FALSE}), Same(BOOLEAN),
             Pairs({""} \cup IPv4UUIDs), Pairs({""} \cup IPv6UUIDs), Pairs({""} \cup IsoUUIDs),
             Same({{}}), Same({<<>>}))

InitNetwork ==
    InitOver(Same({Names1}), Same({1}), Same({1}), Same({FALSE}), Same(BOOLEAN),
             Same({""}), Same({""}), Same({""}),
             Pairs(NetworkSets), Same({<<>>}))

InitStorage ==
    InitOver(Same({Names1}), Same({1}), Same({1}), Same({FALSE}), Same(BOOLEAN),
             Same({""}), Same({""}), Same({""}),
             Same({{}}), Pairs(StorageLists))

Init == InitPower \/ InitIP \/ InitNetwork \/ InitStorage

Next ==
    \/ UpdShutdownServer
    \/ UpdUpdateServer
    \/ UpdIsoImage
    \/ UpdIPv4
    \/ UpdIPv6
    \/ UpdGetNetworkPublicForUnlink
    \/ UpdUnlinkPublicNetwork
    \/ UpdGetNetworkPublicForLink
    \/ UpdLinkPublicNetwork
    \/ UpdUnlinkNetwork
    \/ UpdLinkNetwork
    \/ UpdStorage
    \/ UpdPower
    \/ UpdRead

Spec == Init /\ [][Next]_vars

(***************************************************************************)
(* resourceGridscaleServerCreate.  The prior state of a create is empty    *)
(* and no id is set.  d.GetOk(k) is false for the zero value of k.         *)
(***************************************************************************)
EmptyState ==
    [name |-> "", cores |-> 0, memory |-> 0, legacy |-> FALSE, power |-> FALSE,
     ipv4 |-> "", ipv6 |-> "", isoimage |-> "", network |-> {}, storage |-> <<>>]

GetOk(k) == d.new[k] # EmptyState[k]

\* client.GetIPVersion answers the family of the address, 0 when it cannot tell
IPVersions == {0, 4, 6}

IsBootDevice(storage) == storage.bootdevice

\* requestBody.Relations of the ServerCreateRequest, as built before CreateServer
createPublicIPs ==
    (IF GetOk("ipv4") THEN <<Get("ipv4")>> ELSE <<>>)
    \o (IF GetOk("ipv6") THEN <<Get("ipv6")>> ELSE <<>>)

\* the public network is put into the request for an ipv4 address only
createNeedsPublicNetworkForIPv4Only ==
    GetOk("ipv4")

createNeedsPublicNetwork ==
    Len(createPublicIPs) > 0

createRequestNetworks ==
    (IF createNeedsPublicNetwork THEN {PublicNetworkUUID} ELSE {})
    \cup (IF GetOk("network") THEN {n.object_uuid : n \in Get("network")} ELSE {})

createRequestStorages ==
    IF GetOk("storage") THEN SelectSeq(Get("storage"), IsBootDevice) ELSE <<>>

CreateSites == << "createStorage", "createIPv4", "createIPv6", "createGetPublic",
                  "createServer", "createStart", "createRead" >>

CreateSiteNo(s) == CHOOSE i \in 1..Len(CreateSites) : CreateSites[i] = s

CreateSiteGuard(s) ==
    CASE s = "createStorage"   -> GetOk("storage")
      [] s = "createIPv4"      -> GetOk("ipv4")
      [] s = "createIPv6"      -> GetOk("ipv6")
      [] s = "createGetPublic" -> createNeedsPublicNetwork
      [] s = "createServer"    -> TRUE
      [] s = "createStart"     -> Get("power")
      [] s = "createRead"      -> TRUE

CreateNextSite(i) ==
    CHOOSE j \in i..Len(CreateSites) :
        CreateSiteGuard(CreateSites[j]) /\ \A k \in i..(j-1) : ~CreateSiteGuard(CreateSites[k])

CreateGoto(i) ==
    /\ pc' = CreateSites[CreateNextSite(i)]
    /\ todo' = <<>>
    /\ err' = err

\* attr.(*schema.Set).List() on the value of the TypeList attribute "storage";
\* the second loop over the storages (after CreateServer) asserts the same
\* type and is reached only with an empty list, where GetOk is false
CreateStorage ==
    /\ pc = "createStorage"
    /\ IF AssertSchemaSetPanics(storageSchemaType)
       THEN Return("panic")
       ELSE CreateGoto(CreateSiteNo("createStorage") + 1)
    /\ UNCHANGED <<d, id, calls, state>>

\* a GetIPVersion check whose failure is not returned
CreateIPVersionUnchecked(s, k, family) ==
    /\ pc = s
    /\ \E version \in IPVersions :
          /\ Call("GetIPVersion", Get(k), version = family)
          /\ CreateGoto(CreateSiteNo(s) + 1)
    /\ UNCHANGED <<d, id, state>>

CreateIPVersion(s, k, family) ==
    /\ pc = s
    /\ \E version \in IPVersions :
          /\ Call("GetIPVersion", Get(k), version = family)
          /\ IF version # family THEN Return("error") ELSE CreateGoto(CreateSiteNo(s) + 1)
    /\ UNCHANGED <<d, id, state>>

CreateIPv4 == CreateIPVersion("createIPv4", "ipv4", 4)

CreateIPv6 == CreateIPVersion("createIPv6", "ipv6", 6)

CreateGetNetworkPublic ==
    /\ pc = "createGetPublic"
    /\ \E ok \in BOOLEAN :
          /\ Call("GetNetworkPublic", "", ok)
          /\ IF ok THEN CreateGoto(CreateSiteNo("createGetPublic") + 1) ELSE Return("error")
    /\ UNCHANGED <<d, id, state>>

CreateServer ==
    /\ pc = "createServer"
    /\ \E ok \in BOOLEAN :
          /\ Call("CreateServer", Get("name"), ok)
          /\ IF ok THEN id' = ServerUUID /\ CreateGoto(CreateSiteNo("createServer") + 1)
                   ELSE id' = id /\ Return("error")
    /\ UNCHANGED <<d, state>>

\* client.StartServer(emptyCtx, d.Id()): the error returned is dropped
CreateStartServer ==
    /\ pc = "createStart"
    /\ \E ok \in BOOLEAN :
          /\ Call("StartServer", id, ok)
          /\ CreateGoto(CreateSiteNo("createStart") + 1)
    /\ UNCHANGED <<d, id, state>>

CreateRead == ReadAt("createRead")

InitCreate ==
    /\ \E a \in [name : {Names1}, cores : 1..MaxCores, memory : 1..MaxMemory,
                  legacy : {FALSE}, power : BOOLEAN,
                  ipv4 : {"", IPv4Name[1]}, ipv6 : {"", IPv6Name[1]}, isoimage : {"", IsoName[1]},
                  network : NetworkSets, storage : StorageLists] :
          d = [old |-> EmptyState, new |-> a]
    /\ state = d.new
    /\ id = ""
    /\ calls = <<>>
    /\ err = "none"
    /\ todo = <<>>
    /\ pc = CreateSites[CreateNextSite(1)]

NextCreate ==
    \/ CreateStorage
    \/ CreateIPv4
    \/ CreateIPv6
    \/ CreateGetNetworkPublic
    \/ CreateServer
    \/ CreateStartServer
    \/ CreateRead

SpecCreate == InitCreate /\ [][NextCreate]_vars

(***************************************************************************)
(* resourceGridscaleServerDelete and resourceGridscaleServerRead as entry  *)
(* points, on an existing server whose state has no pending change.        *)
(***************************************************************************)
\* a delete that goes on to DeleteServer whatever StopServer returned
DeleteStopServerUnchecked ==
    /\ pc = "deleteStop"
    /\ \E ok \in BOOLEAN :
          /\ Call("StopServer", id, ok)
          /\ pc' = "deleteServer" /\ todo' = todo /\ err' = err
    /\ UNCHANGED <<d, id, state>>

DeleteStopServer ==
    /\ pc = "deleteStop"
    /\ \/ /\ Call("StopServer", id, TRUE)
          /\ pc' = "deleteServer" /\ todo' = todo /\ err' = err
       \/ \E status \in {404, 500} :
             /\ CallFailedWith("StopServer", id, status)
             /\ Return("error")
    /\ UNCHANGED <<d, id, state>>

DeleteDeleteServer ==
    /\ pc = "deleteServer"
    /\ \E ok \in BOOLEAN :
          /\ Call("DeleteServer", id, ok)
          /\ Return(IF ok THEN "none" ELSE "error")
    /\ UNCHANGED <<d, id, state>>

Read == ReadAt("readServer")

InitExisting(entry) ==
    /\ \E a \in [name : {Names1}, cores : {1}, memory : {1}, legacy : {FALSE}, power : BOOLEAN,
                  ipv4 : {"", IPv4Name[1]}, ipv6 : {"", IPv6Name[1]}, isoimage : {"", IsoName[1]},
                  network : NetworkSets, storage : StorageLists] :
          d = [old |-> a, new |-> a]
    /\ state = d.new
    /\ id = ServerUUID
    /\ calls = <<>>
    /\ err = "none"
    /\ todo = <<>>
    /\ pc = entry

InitDelete == InitExisting("deleteStop")

NextDelete ==
    \/ DeleteStopServer
    \/ DeleteDeleteServer

SpecDelete == InitDelete /\ [][NextDelete]_vars

InitRead == InitExisting("readServer")

NextRead == Read

SpecRead == InitRead /\ [][NextRead]_vars

(***************************************************************************)
(* Vocabulary of the properties: the calls issued so far.                  *)
(***************************************************************************)
LinkUnlinkOps ==
    {"LinkIP", "UnlinkIP", "LinkNetwork", "UnlinkNetwork", "LinkStorage", "UnlinkStorage",
     "LinkIsoImage", "UnlinkIsoImage"}

ReadOnlyOps == {"GetNetworkPublic", "GetServer", "GetIPVersion"}

IsMutating(c) == c.op \notin ReadOnlyOps

MutatingCalls == SelectSeq(calls, IsMutating)

Issued(op, arg) == \E i \in 1..Len(calls) : calls[i].op = op /\ calls[i].arg = arg

IssuedOp(op) == \E i \in 1..Len(calls) : calls[i].op = op

\* the arguments of the calls of one kind, the public network left aside
ArgsOf(op) ==
    {calls[i].arg : i \in {j \in 1..Len(calls) : calls[j].op = op}} \ {PublicNetworkUUID}

\* the update is over (returned or crashed) and no remote call returned an error
EveryCallSucceeded == pc = "done" /\ \A i \in 1..Len(calls) : calls[i].ok

UUIDsOf(S) == {x.object_uuid : x \in S}

OldStorageUUIDs == UUIDsOf(SeqToSet(d.old.storage))
NewStorageUUIDs == UUIDsOf(SeqToSet(d.new.storage))
OldNetworkUUIDs == UUIDsOf(d.old.network)
NewNetworkUUIDs == UUIDsOf(d.new.network)

\* the attachments left after the successful link/unlink calls on a collection
RECURSIVE Replay(_, _, _, _)
Replay(attached, cs, linkOp, unlinkOp) ==
    IF cs = <<>> THEN attached
    ELSE LET c == Head(cs)
             next == IF ~c.ok \/ c.arg = PublicNetworkUUID THEN attached
                     ELSE IF c.op = linkOp THEN attached \cup {c.arg}
                     ELSE IF c.op = unlinkOp THEN attached \ {c.arg}
                     ELSE attached
         IN Replay(next, Tail(cs), linkOp, unlinkOp)

CoresOrMemoryDecreased ==
    d.new.cores < d.old.cores \/ d.new.memory < d.old.memory

PeripheralChanged ==
    \/ d.old.ipv4 # d.new.ipv4
    \/ d.old.ipv6 # d.new.ipv6
    \/ d.old.storage # d.new.storage
    \/ d.old.network # d.new.network

(***************************************************************************)
(* C1.  In an update that changes ipv4, ipv6, the storages or the          *)
(* networks, or decreases cores or memory: ShutdownServer is the first     *)
(* mutating call, UpdateServer comes after it and before every link or     *)
(* unlink call, no StartServer comes before a link or unlink call, and     *)
(* when every call succeeded and power is desired the last mutating call   *)
(* is StartServer.                                                         *)
(***************************************************************************)
C1_ShutdownFirstStartLast ==
    (PeripheralChanged \/ CoresOrMemoryDecreased) =>
        /\ MutatingCalls # <<>> => MutatingCalls[1].op = "ShutdownServer"
        /\ \A i \in 1..Len(MutatingCalls) :
              MutatingCalls[i].op \in LinkUnlinkOps =>
                 /\ \E j \in 2..(i-1) : MutatingCalls[j].op = "UpdateServer"
                 /\ \A j \in 1..(i-1) : MutatingCalls[j].op # "StartServer"
        /\ (EveryCallSucceeded /\ d.new.power) =>
              MutatingCalls[Len(MutatingCalls)].op = "StartServer"

(***************************************************************************)
(* C2.  On a non-legacy server, when no peripheral changes, the power      *)
(* cycle is required exactly when cores or memory decrease; otherwise the  *)
(* first call of the update is UpdateServer, with no ShutdownServer before *)
(* it.                                                                     *)
(***************************************************************************)
C2_PowerCycleOnlyOnDecrease ==
    (~d.new.legacy /\ ~PeripheralChanged) =>
        /\ shutdownRequired <=> CoresOrMemoryDecreased
        /\ calls # <<>> =>
              calls[1].op = (IF CoresOrMemoryDecreased THEN "ShutdownServer" ELSE "UpdateServer")

C2_Witness ==
    /\ ~d.new.legacy /\ ~PeripheralChanged
    /\ d.new.memory > d.old.memory /\ d.new.cores >= d.old.cores
    /\ calls # <<>> /\ calls[1].op = "UpdateServer" /\ calls[1].ok

(***************************************************************************)
(* C3 as stated.  On a legacy server every update, whichever attribute it  *)
(* changes, starts with ShutdownServer.                                    *)
(***************************************************************************)
C3_LegacyAlwaysPowerCycles ==
    (d.new.legacy /\ d.old # d.new /\ calls # <<>>) =>
        shutdownRequired /\ calls[1].op = "ShutdownServer"

(***************************************************************************)
(* C3 as amended.  On a legacy server every update that changes cores or   *)
(* memory, increases included, starts with ShutdownServer; a legacy update *)
(* that changes neither cores, memory nor a peripheral starts with         *)
(* UpdateServer.                                                           *)
(***************************************************************************)
C3_LegacyPowerCyclesOnResize ==
    d.new.legacy =>
        /\ (d.old.cores # d.new.cores \/ d.old.memory # d.new.memory) =>
              /\ shutdownRequired
              /\ calls # <<>> => calls[1].op = "ShutdownServer"
        /\ (d.old.cores = d.new.cores /\ d.old.memory = d.new.memory /\ ~PeripheralChanged) =>
              /\ ~shutdownRequired
              /\ calls # <<>> => calls[1].op = "UpdateServer"

C3_Witness ==
    /\ d.new.legacy /\ ~PeripheralChanged
    /\ d.new.cores > d.old.cores /\ d.new.memory = d.old.memory
    /\ Len(calls) >= 2
    /\ calls[1].op = "ShutdownServer" /\ calls[1].ok
    /\ calls[2].op = "UpdateServer"

(***************************************************************************)
(* C4 as stated.  An update with identical old and new values issues no    *)
(* mutating call other than UpdateServer.                                  *)
(***************************************************************************)
C4_IdenticalOnlyUpdates ==
    d.old = d.new =>
        \A i \in 1..Len(MutatingCalls) : MutatingCalls[i].op = "UpdateServer"

(***************************************************************************)
(* C4 as amended.  An update with identical old and new values issues no   *)
(* link or unlink call and no ShutdownServer before UpdateServer: its      *)
(* mutating calls are UpdateServer and then the one trailing power-state   *)
(* call, StartServer when power is desired and ShutdownServer otherwise.   *)
(***************************************************************************)
C4_IdenticalUpdatesThenPower ==
    d.old = d.new =>
        /\ Len(MutatingCalls) <= 2
        /\ Len(MutatingCalls) >= 1 => MutatingCalls[1].op = "UpdateServer"
        /\ Len(MutatingCalls) = 2 =>
              MutatingCalls[2].op = (IF d.new.power THEN "StartServer" ELSE "ShutdownServer")
        /\ EveryCallSucceeded => Len(MutatingCalls) = 2

C4_Witness ==
    /\ d.old = d.new
    /\ EveryCallSucceeded
    /\ err = "none"
    /\ Len(MutatingCalls) = 2

(***************************************************************************)
(* C5.  When every call of the update succeeded, the UnlinkStorage and     *)
(* LinkStorage calls issued turn the old storage set into the new one, and *)
(* the UnlinkNetwork and LinkNetwork calls issued (public network aside)   *)
(* turn the old network set into the new one.                              *)
(***************************************************************************)
C5_Convergence ==
    EveryCallSucceeded =>
        /\ Replay(OldStorageUUIDs, calls, "LinkStorage", "UnlinkStorage") = NewStorageUUIDs
        /\ Replay(OldNetworkUUIDs, calls, "LinkNetwork", "UnlinkNetwork") = NewNetworkUUIDs

(***************************************************************************)
(* C6.  When every call of the update succeeded, UnlinkStorage was issued  *)
(* exactly for the storages of the old collection that are absent from the *)
(* new one and LinkStorage exactly for those of the new collection absent  *)
(* from the old one; every UnlinkStorage precedes every LinkStorage.       *)
(***************************************************************************)
C6_StorageDiffer ==
    /\ EveryCallSucceeded =>
          /\ ArgsOf("UnlinkStorage") = OldStorageUUIDs \ NewStorageUUIDs
          /\ ArgsOf("LinkStorage") = NewStorageUUIDs \ OldStorageUUIDs
    /\ \A i, j \in 1..Len(calls) :
          (calls[i].op = "LinkStorage" /\ calls[j].op = "UnlinkStorage") => j < i

(***************************************************************************)
(* C7 as stated.  A network present in both the old and the new collection *)
(* gets neither UnlinkNetwork nor LinkNetwork; UnlinkNetwork is issued     *)
(* only for removed networks and LinkNetwork only for added ones.          *)
(***************************************************************************)
C7_NetworkDifferKeepsCommon ==
    /\ ArgsOf("UnlinkNetwork") \subseteq OldNetworkUUIDs \ NewNetworkUUIDs
    /\ ArgsOf("LinkNetwork") \subseteq NewNetworkUUIDs \ OldNetworkUUIDs

(***************************************************************************)
(* C7 as amended.  In an update that changes the network collection,       *)
(* UnlinkNetwork is issued for every network of the old collection, those  *)
(* kept in the new collection included, and then LinkNetwork for every     *)
(* network of the new collection; UnlinkNetwork is issued only for         *)
(* networks of the old collection, LinkNetwork only for networks of the    *)
(* new one, and an update that leaves the collection unchanged issues      *)
(* neither.                                                                *)
(***************************************************************************)
C7_NetworkRelinksAll ==
    /\ ArgsOf("UnlinkNetwork") \subseteq OldNetworkUUIDs
    /\ ArgsOf("LinkNetwork") \subseteq NewNetworkUUIDs
    /\ d.old.network = d.new.network =>
          ArgsOf("UnlinkNetwork") = {} /\ ArgsOf("LinkNetwork") = {}
    /\ \A i, j \in 1..Len(calls) :
          (/\ calls[i].op = "LinkNetwork" /\ calls[i].arg # PublicNetworkUUID
           /\ calls[j].op = "UnlinkNetwork" /\ calls[j].arg # PublicNetworkUUID) => j < i
    /\ (EveryCallSucceeded /\ d.old.network # d.new.network) =>
          /\ ArgsOf("UnlinkNetwork") = OldNetworkUUIDs
          /\ ArgsOf("LinkNetwork") = NewNetworkUUIDs

C7_Witness ==
    /\ EveryCallSucceeded
    /\ \E u \in OldNetworkUUIDs \cap NewNetworkUUIDs :
          \E i, j \in 1..Len(calls) :
             /\ i < j
             /\ calls[i].op = "UnlinkNetwork" /\ calls[i].arg = u
             /\ calls[j].op = "LinkNetwork" /\ calls[j].arg = u

(***************************************************************************)
(* C8.  In an update that changes the ISO image and whose calls all        *)
(* succeeded, UnlinkIsoImage(old) was issued exactly when an old image was *)
(* present and LinkIsoImage(new) exactly when a new image is present; no   *)
(* other ISO call is issued, and the unlink precedes the link.             *)
(***************************************************************************)
C8_IsoReconciled ==
    /\ \A i \in 1..Len(calls) :
          /\ calls[i].op = "UnlinkIsoImage" =>
                d.old.isoimage # d.new.isoimage /\ calls[i].arg = d.old.isoimage /\ calls[i].arg # ""
          /\ calls[i].op = "LinkIsoImage" =>
                d.old.isoimage # d.new.isoimage /\ calls[i].arg = d.new.isoimage /\ calls[i].arg # ""
    /\ (EveryCallSucceeded /\ d.old.isoimage # d.new.isoimage) =>
          /\ d.old.isoimage # "" => Issued("UnlinkIsoImage", d.old.isoimage)
          /\ d.new.isoimage # "" => Issued("LinkIsoImage", d.new.isoimage)
    /\ \A i, j \in 1..Len(calls) :
          (calls[i].op = "LinkIsoImage" /\ calls[j].op = "UnlinkIsoImage") => j < i

(***************************************************************************)
(* C9.  When an address of a family is replaced by a different address,    *)
(* UnlinkIP of the old address is issued before LinkIP of the new one, so  *)
(* that the addresses linked after the successful calls never include two  *)
(* of one family.                                                          *)
(***************************************************************************)
LinkedIPs(cs) == Replay({d.old.ipv4, d.old.ipv6} \ {""}, cs, "LinkIP", "UnlinkIP")

C9_UnlinkBeforeLinkPerFamily ==
    /\ \A k \in {"ipv4", "ipv6"} : \A i \in 1..Len(calls) :
          (calls[i].op = "LinkIP" /\ calls[i].arg = d.new[k] /\ d.old[k] # "") =>
             \E j \in 1..(i-1) : calls[j].op = "UnlinkIP" /\ calls[j].arg = d.old[k]
    /\ \A n \in 0..Len(calls) :
          /\ Cardinality(LinkedIPs(SubSeq(calls, 1, n)) \cap IPv4UUIDs) <= 1
          /\ Cardinality(LinkedIPs(SubSeq(calls, 1, n)) \cap IPv6UUIDs) <= 1

(***************************************************************************)
(* C10.  LinkNetwork on the public network is issued only if no address    *)
(* was present in the old state and one is present in the new state, and   *)
(* it is issued in every such update whose calls all succeeded.            *)
(***************************************************************************)
NoOldIP   == d.old.ipv4 = "" /\ d.old.ipv6 = ""
SomeNewIP == d.new.ipv4 # "" \/ d.new.ipv6 # ""

C10_PublicLinkIffFirstIP ==
    /\ Issued("LinkNetwork", PublicNetworkUUID) => (NoOldIP /\ SomeNewIP)
    /\ (EveryCallSucceeded /\ NoOldIP /\ SomeNewIP) => Issued("LinkNetwork", PublicNetworkUUID)

(***************************************************************************)
(* C11.  UnlinkNetwork on the public network is issued only if an address  *)
(* was present in the old state and none is present in the new state, it   *)
(* is issued in every such update whose calls all succeeded, and it comes  *)
(* after the UnlinkIP calls of the update.                                 *)
(***************************************************************************)
SomeOldIP == d.old.ipv4 # "" \/ d.old.ipv6 # ""
NoNewIP   == d.new.ipv4 = "" /\ d.new.ipv6 = ""

C11_PublicUnlinkIffLastIP ==
    /\ Issued("UnlinkNetwork", PublicNetworkUUID) => (SomeOldIP /\ NoNewIP)
    /\ (EveryCallSucceeded /\ SomeOldIP /\ NoNewIP) =>
          Issued("UnlinkNetwork", PublicNetworkUUID)
    /\ \A i, j \in 1..Len(calls) :
          (/\ calls[i].op = "UnlinkNetwork" /\ calls[i].arg = PublicNetworkUUID
           /\ calls[j].op = "UnlinkIP") => j < i

C11_Witness ==
    /\ EveryCallSucceeded
    /\ d.old.ipv4 # "" /\ d.old.ipv6 # "" /\ NoNewIP
    /\ Issued("UnlinkIP", d.old.ipv4) /\ Issued("UnlinkIP", d.old.ipv6)
    /\ Issued("UnlinkNetwork", PublicNetworkUUID)

(***************************************************************************)
(* C12.  An update that replaces the address of one family by a different  *)
(* address, while the attachment of the other family (set or unset) stays  *)
(* as it was, issues neither LinkNetwork nor UnlinkNetwork on the public   *)
(* network.                                                                *)
(***************************************************************************)
Replaced(k) == d.old[k] # "" /\ d.new[k] # "" /\ d.old[k] # d.new[k]

C12_ReplacementKeepsPublicNetwork ==
    (\/ Replaced("ipv4") /\ d.old.ipv6 = d.new.ipv6
     \/ Replaced("ipv6") /\ d.old.ipv4 = d.new.ipv4) =>
        /\ ~Issued("LinkNetwork", PublicNetworkUUID)
        /\ ~Issued("UnlinkNetwork", PublicNetworkUUID)

C12_Witness ==
    /\ Replaced("ipv4") /\ d.old.ipv6 = "" /\ d.new.ipv6 = ""
    /\ EveryCallSucceeded /\ err = "none"
    /\ Issued("LinkIP", d.new.ipv4)
    /\ ~Issued("LinkNetwork", PublicNetworkUUID)

(***************************************************************************)
(* Vocabulary of the properties of create, delete and read.                *)
(***************************************************************************)
\* the arguments of the calls of one kind, in the order of the calls
RECURSIVE ArgSeqOf(_, _)
ArgSeqOf(op, cs) ==
    IF cs = <<>> THEN <<>>
    ELSE (IF Head(cs).op = op THEN <<Head(cs).arg>> ELSE <<>>) \o ArgSeqOf(op, Tail(cs))

IsNotBootDevice(storage) == ~storage.bootdevice

BootStorages    == SelectSeq(d.new.storage, IsBootDevice)
NonBootStorages == SelectSeq(d.new.storage, IsNotBootDevice)

LastCall == calls[Len(calls)]

(***************************************************************************)
(* C13.  In a create whose calls all succeeded, CreateServer was issued    *)
(* with the boot storages only, LinkStorage was issued after it for every  *)
(* non-boot storage in the order of the desired list, and StartServer      *)
(* comes after all LinkStorage calls and only when power is desired.       *)
(***************************************************************************)
C13_CreationOrdering ==
    /\ EveryCallSucceeded =>
          /\ IssuedOp("CreateServer")
          /\ createRequestStorages = BootStorages
          /\ ArgSeqOf("LinkStorage", calls)
                = [i \in 1..Len(NonBootStorages) |-> NonBootStorages[i].object_uuid]
    /\ \A i \in 1..Len(calls) :
          /\ calls[i].op = "LinkStorage" =>
                \E j \in 1..(i-1) : calls[j].op = "CreateServer" /\ calls[j].ok
          /\ calls[i].op = "StartServer" =>
                /\ d.new.power
                /\ \A j \in (i+1)..Len(calls) : calls[j].op # "LinkStorage"

(***************************************************************************)
(* C14.  A create whose desired storages include two or more boot devices  *)
(* ends with an error returned before any remote call is issued.           *)
(***************************************************************************)
C14_TwoBootDevicesRejected ==
    Len(BootStorages) >= 2 =>
        /\ ~IssuedOp("CreateServer")
        /\ pc = "done" => (err = "error" /\ calls = <<>>)

(***************************************************************************)
(* C15.  When GetIPVersion reports for the ipv4 address a family other     *)
(* than 4, or for the ipv6 address a family other than 6, the create ends  *)
(* there with an error: no mutating call was or is issued and no id is     *)
(* set.  CreateServer is issued only after the check of every address      *)
(* given has passed.                                                       *)
(***************************************************************************)
C15_IPFamilyValidatedFirst ==
    /\ \A i \in 1..Len(calls) :
          (calls[i].op = "GetIPVersion" /\ ~calls[i].ok) =>
             /\ i = Len(calls)
             /\ pc = "done" /\ err = "error"
             /\ id = ""
             /\ MutatingCalls = <<>>
    /\ \A i \in 1..Len(calls) :
          IsMutating(calls[i]) =>
             \A k \in {"ipv4", "ipv6"} :
                d.new[k] # "" =>
                   \E j \in 1..(i-1) :
                      calls[j].op = "GetIPVersion" /\ calls[j].arg = d.new[k] /\ calls[j].ok

C15_Witness ==
    /\ pc = "done" /\ err = "error" /\ id = ""
    /\ Len(calls) = 2
    /\ calls[1].op = "GetIPVersion" /\ calls[1].arg = d.new.ipv4 /\ calls[1].ok
    /\ calls[2].op = "GetIPVersion" /\ calls[2].arg = d.new.ipv6 /\ ~calls[2].ok

(***************************************************************************)
(* C16.  Whenever CreateServer is issued, the public network is in its     *)
(* request exactly when ipv4 or ipv6 is requested, and then it was         *)
(* resolved by a successful GetNetworkPublic; a failed GetNetworkPublic    *)
(* ends the create with an error and CreateServer is not issued.           *)
(***************************************************************************)
C16_PublicNetworkOnCreate ==
    /\ IssuedOp("CreateServer") =>
          /\ (PublicNetworkUUID \in createRequestNetworks)
                <=> (d.new.ipv4 # "" \/ d.new.ipv6 # "")
          /\ (PublicNetworkUUID \in createRequestNetworks)
                <=> \E i \in 1..Len(calls) : calls[i].op = "GetNetworkPublic" /\ calls[i].ok
    /\ \A i \in 1..Len(calls) :
          (calls[i].op = "GetNetworkPublic" /\ ~calls[i].ok) =>
             /\ i = Len(calls)
             /\ pc = "done" /\ err = "error"
             /\ ~IssuedOp("CreateServer")

C16_Witness ==
    /\ d.new.ipv4 = "" /\ d.new.ipv6 # ""
    /\ \E i, j \in 1..Len(calls) :
          /\ i < j
          /\ calls[i].op = "GetNetworkPublic" /\ calls[i].ok
          /\ calls[j].op = "CreateServer" /\ calls[j].ok
    /\ PublicNetworkUUID \in createRequestNetworks

(***************************************************************************)
(* C17.  In an update, a failed call is the last call issued: the update   *)
(* is over, and unless the call was the final GetServer answering 404 it   *)
(* returned an error.  Every call before the last one succeeded.           *)
(***************************************************************************)
C17_UpdateFailStop ==
    /\ \A i \in 1..(Len(calls) - 1) : calls[i].ok
    /\ (calls # <<>> /\ ~LastCall.ok) =>
          /\ pc = "done"
          /\ LastCall.op # "GetServer" => err = "error"

C17_Witness ==
    /\ pc = "done" /\ err = "error"
    /\ Len(calls) >= 3
    /\ LastCall.op = "LinkIP" /\ ~LastCall.ok
    /\ d.old.network # d.new.network
    /\ ~IssuedOp("UnlinkNetwork") /\ ~IssuedOp("StartServer")

(***************************************************************************)
(* C18.  When an entry point is over and one of its mutating calls failed, *)
(* it returned an error.                                                   *)
(***************************************************************************)
C18_NoErrorSwallowed ==
    (pc = "done" /\ \E i \in 1..Len(calls) : IsMutating(calls[i]) /\ ~calls[i].ok) =>
        err = "error"

(***************************************************************************)
(* C19.  A delete issues StopServer and then DeleteServer and nothing      *)
(* else; DeleteServer is issued only after StopServer succeeded, and a     *)
(* failed StopServer ends the delete with its error.                       *)
(***************************************************************************)
C19_DeleteStopsThenDeletes ==
    /\ Len(calls) <= 2
    /\ Len(calls) >= 1 => calls[1].op = "StopServer"
    /\ Len(calls) = 2 => (calls[2].op = "DeleteServer" /\ calls[1].ok)
    /\ (Len(calls) >= 1 /\ ~calls[1].ok) =>
          (pc = "done" /\ err = "error" /\ Len(calls) = 1)
    /\ pc = "done" => (err = "none" <=> (Len(calls) = 2 /\ calls[2].ok))

C19_Witness ==
    /\ pc = "done" /\ err = "error"
    /\ Len(calls) = 1
    /\ calls[1].op = "StopServer" /\ ~calls[1].ok

(***************************************************************************)
(* C20.  When GetServer fails with status 404 the read returns no error,   *)
(* clears the id and leaves the attributes as they were; when it fails     *)
(* with another status the read returns the error and the id and the       *)
(* attributes stay as they were.                                           *)
(***************************************************************************)
C20_ReadNotFoundClearsId ==
    \A i \in 1..Len(calls) :
        (calls[i].op = "GetServer" /\ ~calls[i].ok) =>
           /\ pc = "done"
           /\ state = d.new
           /\ IF calls[i].status = 404
                 THEN err = "none" /\ id = ""
                 ELSE err = "error" /\ id = ServerUUID

C20_Witness ==
    /\ pc = "done" /\ err = "none" /\ id = ""
    /\ calls # <<>>
    /\ LastCall.op = "GetServer" /\ ~LastCall.ok /\ LastCall.status = 404
    /\ state = d.new

(***************************************************************************)
(* C21.  A delete whose StopServer fails with status 404, the server being *)
(* gone already, returns no error.                                         *)
(***************************************************************************)
C21_DeleteOfAbsentServerSucceeds ==
    (calls # <<>> /\ calls[1].op = "StopServer" /\ ~calls[1].ok /\ calls[1].status = 404) =>
        err = "none"

(***************************************************************************)
(* C22.  An update that is over and whose calls all succeeded has a        *)
(* power-state call as its last mutating call: StartServer when power is   *)
(* desired, ShutdownServer otherwise, an update without any difference     *)
(* included.                                                               *)
(***************************************************************************)
C22_TrailingPowerCall ==
    EveryCallSucceeded =>
        /\ MutatingCalls # <<>>
        /\ MutatingCalls[Len(MutatingCalls)].op
              = (IF d.new.power THEN "StartServer" ELSE "ShutdownServer")
        /\ MutatingCalls[Len(MutatingCalls)].arg = id

(***************************************************************************)
(* C23.  In one update at most one LinkNetwork or UnlinkNetwork call has   *)
(* the public network as its target, whatever the old and new values of    *)
(* ipv4 and ipv6 are.                                                      *)
(***************************************************************************)
PublicNetworkCalls ==
    {i \in 1..Len(calls) :
        calls[i].op \in {"LinkNetwork", "UnlinkNetwork"} /\ calls[i].arg = PublicNetworkUUID}

C23_OnePublicNetworkCall ==
    Cardinality(PublicNetworkCalls) <= 1

C23_Witness ==
    /\ pc = "done"
    /\ HasChange("ipv4") /\ HasChange("ipv6")
    /\ d.new.ipv4 = "" /\ d.new.ipv6 = ""
    /\ Cardinality(PublicNetworkCalls) = 1
    /\ \A i \in PublicNetworkCalls : calls[i].op = "UnlinkNetwork" /\ calls[i].ok

(***************************************************************************)
(* C24.  In an update of a legacy server that changes cores or memory,     *)
(* increases included, every UpdateServer call comes after a successful    *)
(* ShutdownServer with no StartServer between the two.                     *)
(***************************************************************************)
C24_LegacyResizedWhileStopped ==
    (Get("legacy") /\ (HasChange("cores") \/ HasChange("memory"))) =>
        \A i \in 1..Len(calls) :
            calls[i].op = "UpdateServer" =>
                \E j \in 1..(i-1) :
                    /\ calls[j].op = "ShutdownServer" /\ calls[j].ok
                    /\ \A k \in (j+1)..(i-1) : calls[k].op # "StartServer"

C24_Witness ==
    /\ Get("legacy")
    /\ ~HasChange("cores")
    /\ GetChange("memory")[1] < GetChange("memory")[2]
    /\ ~shutdownRequiredRelations
    /\ Len(calls) >= 2
    /\ calls[1].op = "ShutdownServer" /\ calls[1].ok
    /\ calls[2].op = "UpdateServer"

(***************************************************************************)
(* C25.  In a create the id is set only by a successful CreateServer, no   *)
(* LinkStorage or StartServer is issued without one, and a create that is  *)
(* over without returning an error has issued a successful CreateServer.   *)
(***************************************************************************)
CreateServerSucceeded ==
    \E i \in 1..Len(calls) : calls[i].op = "CreateServer" /\ calls[i].ok

C25_IdSetByCreateServer ==
    /\ id # "" => CreateServerSucceeded
    /\ (IssuedOp("LinkStorage") \/ IssuedOp("StartServer")) => CreateServerSucceeded
    /\ (pc = "done" /\ err # "error") => CreateServerSucceeded

====
